---- MODULE Spec2Model ----
(***************************************************************************)
(* A model of the ByteByteGo batch crawl-and-extract pipeline:             *)
(*   backend/batch_scrape.py  collect_urls_from_sitemap, collect_all_urls, *)
(*                            save_post, scrape_all_posts, main            *)
(*   scraper.py               fetch_html, extract_metadata,                *)
(*                            extract_images, extract_post                 *)
(*                                                                         *)
(* A URL is a sequence of text pieces in which the piece "/p/" is the post *)
(* path marker, so that url.split('/p/') is a computation over the pieces. *)
(* An HTML attribute value is a sequence of characters, so that int(...)   *)
(* is a parse that can fail.                                               *)
(***************************************************************************)
EXTENDS Integers, Sequences, FiniteSets, TLC

VARIABLES
    \* ---- scrape_all_posts (and the storage directory it works on) ----
    urls,           \* the input list of url_data dicts
    save_enabled,   \* the save_enabled argument of the current run
    files,          \* output_dir: storage key (slug) -> file content
    files0,         \* output_dir as it was when the current run started
    run,            \* "first" or "second" run over the same input
    pc,             \* "idle" | "loop" | "done"
    i,              \* number of entries of urls already processed
    success_count,
    error_count,
    errors,
    trace,          \* per processed entry: what the loop body did
    prev,           \* summary and trace of the first run, once it is over
    \* ---- collect_all_urls and main ----
    main_pc,        \* "none" | "collecting" | "scraping" | "complete" | "crashed"
    yi,             \* number of years already fetched
    pages,          \* what the site answered for each year fetched so far
    all_posts,
    unique_posts,
    \* ---- extract_images ----
    img_tags,       \* article.find_all('img'); no article is no img tag
    idx,            \* number of img tags already enumerated
    images,
    \* ---- extract_post ----
    doc,            \* what the site serves for the post URL
    epc,            \* "none" | "fetch" | "fetched" | "returned" | "raised"
    metadata,
    raised          \* the exception that left extract_post, or "none"

batchVars == <<urls, save_enabled, files, files0, run, pc, i, success_count,
               error_count, errors, trace, prev>>
collVars  == <<main_pc, yi, pages, all_posts, unique_posts>>
imgVars   == <<img_tags, idx, images>>
exVars    == <<doc, epc, metadata, raised>>
vars      == <<batchVars, collVars, imgVars, exVars>>

(***************************************************************************)
(* Bounds of the model.                                                    *)
(***************************************************************************)
\* length of the pool of fresh post URLs (distinct slugs) inputs are cut from
PoolLen == 5
\* longest input list drawn freely (repetitions and slug collisions allowed)
MaxLen == 2
\* number of hyperlinks on the sitemap pages of all years together
MaxLinks == 3
\* number of img elements in the article
MaxImgs == 2

(***************************************************************************)
(* URLs and storage keys.                                                  *)
(***************************************************************************)
BlogHost == "https://blog.bytebytego.com"
Marker == "/p/"

SlugNames == <<"a", "b", "c", "d", "e", "f", "g", "h">>

PostUrl(s) == <<BlogHost, Marker, s>>

\* what follows the first marker: url.split('/p/')[1]
SlugMutFirst(url) ==
    LET at == {k \in 1..Len(url) : url[k] = Marker}
    IN  IF at = {} THEN url
        ELSE LET first == CHOOSE k \in at : \A m \in at : k <= m
             IN  SubSeq(url, first + 1, Len(url))

\* url.split('/p/')[-1]: what follows the last marker, the whole url when
\* it holds no marker.
Slug(url) ==
    LET at == {k \in 1..Len(url) : url[k] = Marker}
    IN  IF at = {} THEN url
        ELSE LET last == CHOOSE k \in at : \A m \in at : m <= k
             IN  SubSeq(url, last + 1, Len(url))

\* The fresh pool: PoolLen post URLs with pairwise distinct slugs.
FreshPool == [k \in 1..PoolLen |-> PostUrl(SlugNames[k])]

\* URLs of the freely drawn inputs: two of them share the trailing segment.
UrlA  == PostUrl("a")
UrlA2 == <<BlogHost, Marker, "x", Marker, "a">>
UrlB  == PostUrl("b")
FreeUrls == {UrlA, UrlA2, UrlB}

\* hrefs found on sitemap pages besides UrlA and UrlB: a page of the blog
\* that is no post, and two posts of another host, one of which carries the
\* blog's domain in its query string
UrlAbout   == <<BlogHost, "/about">>
UrlForeign == <<"https://other.example", Marker, "a">>
UrlRef     == <<"https://other.example", Marker, "a?ref=blog.bytebytego.com">>

AllUrls == FreeUrls \cup {FreshPool[k] : k \in 1..PoolLen}
                    \cup {UrlAbout, UrlForeign, UrlRef}
Keys == {Slug(u) : u \in AllUrls}

UrlData(u) == [url |-> u]

RECURSIVE SeqsUpTo(_, _)
SeqsUpTo(S, n) ==
    IF n = 0 THEN {<<>>}
    ELSE LET shorter == SeqsUpTo(S, n - 1)
         IN  shorter \cup {Append(s, x) : s \in {t \in shorter : Len(t) = n - 1}, x \in S}

RECURSIVE Pick(_, _)
\* the subsequence of sequence s at the positions of set P, in order
Pick(s, P) ==
    IF s = <<>> THEN <<>>
    ELSE LET n == Len(s)
             front == Pick(SubSeq(s, 1, n - 1), P)
         IN  IF n \in P THEN Append(front, s[n]) ELSE front

Reverse(s) == [k \in 1..Len(s) |-> s[Len(s) + 1 - k]]

\* The input lists of the batch runner: every subsequence of the fresh pool,
\* forwards or backwards, and every list of at most MaxLen free URLs.
Inputs ==
    LET cuts == {Pick(FreshPool, P) : P \in SUBSET (1..PoolLen)}
        free == SeqsUpTo(FreeUrls, MaxLen)
        asData(s) == [k \in 1..Len(s) |-> UrlData(s[k])]
    IN  {asData(s) : s \in cuts \cup {Reverse(c) : c \in cuts} \cup free}

(***************************************************************************)
(* Storage: output_dir / f"{slug}.json".                                   *)
(***************************************************************************)
NoFile == [state |-> "none", url |-> <<>>]
\* json.dump(post_data, f) ran to its end
Complete(post_data) == [state |-> "complete", url |-> post_data.url]
\* open(output_file, 'w') created the file, json.dump did not finish
Partial(post_data) == [state |-> "partial", url |-> post_data.url]

\* output_file.exists()
Exists(slug) == files[slug].state # "none"

\* extract_post(url), as scrape_all_posts sees its result
PostData(url) == [url |-> url]

\* str(e) of an exception raised before, and while, the file is written
ErrFetch == "HTTPError"
ErrDump == "OSError"

(***************************************************************************)
(* scrape_all_posts: one action per way through the loop body.             *)
(***************************************************************************)
\* the loop of line 121 going over urls from its last entry to its first
CurUrlMutReverse == urls[Len(urls) - i].url

CurUrl == urls[i + 1].url
CurSlug == Slug(CurUrl)

InLoop == pc = "loop" /\ i < Len(urls)

\* the check of line 127 without its save_enabled operand
ShouldSkipMutAlways == Exists(CurSlug)

\* no resumability check at all
ShouldSkipMutNever == FALSE

\* line 127: the resumability check
ShouldSkip == save_enabled /\ Exists(CurSlug)

\* what the loop body did with the current entry: kind is "skip", "ok" or
\* "fail", slept whether time.sleep(rate_limit) ran, error the text of str(e)
Step(kind, slept, error) ==
    [url |-> CurUrl, kind |-> kind, slept |-> slept, error |-> error]

\* the skip of lines 127-130 without line 129
SkipExistingMutNoCount ==
    /\ InLoop
    /\ ShouldSkip
    /\ i' = i + 1
    /\ trace' = Append(trace, Step("skip", FALSE, ""))
    /\ UNCHANGED <<urls, save_enabled, files, files0, run, pc, success_count,
                   error_count, errors, prev>>
    /\ UNCHANGED <<collVars, imgVars, exVars>>

\* lines 127-130
SkipExisting ==
    /\ InLoop
    /\ ShouldSkip
    /\ success_count' = success_count + 1
    /\ i' = i + 1
    /\ trace' = Append(trace, Step("skip", FALSE, ""))
    /\ UNCHANGED <<urls, save_enabled, files, files0, run, pc, error_count,
                   errors, prev>>
    /\ UNCHANGED <<collVars, imgVars, exVars>>

\* save_post, lines 93-101, when nothing in it raises
SavePost(post_data) ==
    IF save_enabled
    THEN [files EXCEPT ![Slug(post_data.url)] = Complete(post_data)]
    ELSE files

\* line 148, reached only when lines 137-145 raised nothing
SleptAfterSuccess == TRUE

\* lines 132-148: extract_post and save_post both return
ScrapeSuccess ==
    /\ InLoop
    /\ ~ShouldSkip
    /\ files' = SavePost(PostData(CurUrl))
    /\ success_count' = success_count + 1
    /\ i' = i + 1
    /\ trace' = Append(trace, Step("ok", SleptAfterSuccess, ""))
    /\ UNCHANGED <<urls, save_enabled, files0, run, pc, error_count, errors,
                   prev>>
    /\ UNCHANGED <<collVars, imgVars, exVars>>

\* lines 150-158: the except clause
Failure(msg) == [url |-> CurUrl, slug |-> CurSlug, error |-> msg]

\* line 148 is skipped when an exception leaves the try body before it
SleptAfterFailure == FALSE

\* ExtractFail as it would be without the try/except: the failure ends the loop
ExtractFailMutAbort ==
    /\ InLoop
    /\ ~ShouldSkip
    /\ error_count' = error_count + 1
    /\ errors' = Append(errors, Failure(ErrFetch))
    /\ i' = Len(urls)
    /\ trace' = Append(trace, Step("fail", SleptAfterFailure, ErrFetch))
    /\ UNCHANGED <<urls, save_enabled, files, files0, run, pc, success_count,
                   prev>>
    /\ UNCHANGED <<collVars, imgVars, exVars>>

\* lines 137-140, 150-158: an exception leaves the try body before any file
\* exists: extract_post raises (fetch_html, or one of the extractors), or
\* open() raises in save_post. Both take the same path through the except
\* clause and differ only in the text of str(e).
ExtractFail ==
    /\ InLoop
    /\ ~ShouldSkip
    /\ error_count' = error_count + 1
    /\ errors' = Append(errors, Failure(ErrFetch))
    /\ i' = i + 1
    /\ trace' = Append(trace, Step("fail", SleptAfterFailure, ErrFetch))
    /\ UNCHANGED <<urls, save_enabled, files, files0, run, pc, success_count,
                   prev>>
    /\ UNCHANGED <<collVars, imgVars, exVars>>

\* lines 98-99, 150-158: json.dump raises in save_post, after open(.., 'w')
\* has created (or truncated) the file
SaveFail ==
    /\ InLoop
    /\ ~ShouldSkip
    /\ save_enabled
    /\ files' = [files EXCEPT ![CurSlug] = Partial(PostData(CurUrl))]
    /\ error_count' = error_count + 1
    /\ errors' = Append(errors, Failure(ErrDump))
    /\ i' = i + 1
    /\ trace' = Append(trace, Step("fail", SleptAfterFailure, ErrDump))
    /\ UNCHANGED <<urls, save_enabled, files0, run, pc, success_count, prev>>
    /\ UNCHANGED <<collVars, imgVars, exVars>>

\* lines 160-165
Summary ==
    [total |-> Len(urls), successful |-> success_count,
     failed |-> error_count, errors |-> errors]

FinishRun ==
    /\ pc = "loop"
    /\ i = Len(urls)
    /\ pc' = "done"
    /\ UNCHANGED <<urls, save_enabled, files, files0, run, i, success_count,
                   error_count, errors, trace, prev>>
    /\ UNCHANGED <<collVars, imgVars, exVars>>

\* scrape_all_posts is called again over the same input and the same
\* output_dir; nothing but the runner touches output_dir in between.
Rerun ==
    /\ main_pc = "none"
    /\ pc = "done"
    /\ run = "first"
    /\ run' = "second"
    /\ prev' = [summary |-> Summary, trace |-> trace, save_enabled |-> save_enabled]
    /\ \E se \in BOOLEAN : save_enabled' = se
    /\ files0' = files
    /\ pc' = "loop"
    /\ i' = 0
    /\ success_count' = 0
    /\ error_count' = 0
    /\ errors' = <<>>
    /\ trace' = <<>>
    /\ UNCHANGED <<urls, files>>
    /\ UNCHANGED <<collVars, imgVars, exVars>>

NoPrev == [summary |-> [total |-> 0, successful |-> 0, failed |-> 0, errors |-> <<>>],
           trace |-> <<>>, save_enabled |-> FALSE]

\* no batch run is under way
BatchInert ==
    /\ urls = <<>>
    /\ save_enabled = FALSE
    /\ files = [k \in Keys |-> NoFile]
    /\ files0 = [k \in Keys |-> NoFile]
    /\ run = "first"
    /\ pc = "idle"
    /\ i = 0
    /\ success_count = 0
    /\ error_count = 0
    /\ errors = <<>>
    /\ trace = <<>>
    /\ prev = NoPrev

CollIdle ==
    /\ main_pc = "none"
    /\ yi = 0
    /\ pages = <<>>
    /\ all_posts = <<>>
    /\ unique_posts = <<>>

ImgIdle ==
    /\ img_tags = <<>>
    /\ idx = 0
    /\ images = <<>>

ExIdle ==
    /\ doc = <<>>
    /\ epc = "none"
    /\ metadata = <<>>
    /\ raised = "none"

(***************************************************************************)
(* The batch runner on its own: scrape_all_posts(urls, output_dir, ...)    *)
(* over an empty output_dir, then once more over what the first run left.  *)
(***************************************************************************)
InitBatch ==
    /\ urls \in Inputs
    /\ save_enabled \in BOOLEAN
    /\ files = [k \in Keys |-> NoFile]
    /\ files0 = [k \in Keys |-> NoFile]
    /\ run = "first"
    /\ pc = "loop"
    /\ i = 0
    /\ success_count = 0
    /\ error_count = 0
    /\ errors = <<>>
    /\ trace = <<>>
    /\ prev = NoPrev
    /\ CollIdle
    /\ ImgIdle
    /\ ExIdle

NextBatch ==
    \/ SkipExisting
    \/ ScrapeSuccess
    \/ ExtractFail
    \/ SaveFail
    \/ FinishRun
    \/ Rerun

SpecBatch == InitBatch /\ [][NextBatch]_vars

(***************************************************************************)
(* collect_urls_from_sitemap and collect_all_urls.                         *)
(***************************************************************************)
\* line 61
Years == <<2021, 2022, 2023, 2024, 2025>>

\* An <a href=...> element: its href and its text, a sequence of pieces in
\* which " " is white space.
Link(href, text) == [href |-> href, text |-> text]

Links ==
    { Link(UrlA, <<"T1">>), Link(UrlA, <<" ", "T2", " ">>), Link(UrlB, <<>>),
      Link(UrlAbout, <<"About">>), Link(UrlForeign, <<"T1">>),
      Link(UrlRef, <<" ">>) }

\* 'blog.bytebytego.com' in piece
MentionsBlog(piece) == piece \in {BlogHost, "a?ref=blog.bytebytego.com"}

\* line 41: '/p/' in href and 'blog.bytebytego.com' in href
IsPostLink(href) ==
    /\ \E k \in 1..Len(href) : href[k] = Marker
    /\ \E k \in 1..Len(href) : MentionsBlog(href[k])

RECURSIVE StripLeft(_)
StripLeft(t) == IF t # <<>> /\ Head(t) = " " THEN StripLeft(Tail(t)) ELSE t

RECURSIVE StripRight(_)
StripRight(t) ==
    IF t # <<>> /\ t[Len(t)] = " " THEN StripRight(SubSeq(t, 1, Len(t) - 1)) ELSE t

\* line 42: link.get_text(strip=True)
GetTextStrip(text) == StripRight(StripLeft(text))

RECURSIVE CollectFromPage(_, _)
\* lines 37-49: the posts of one parsed sitemap page, in document order
CollectFromPage(page, year) ==
    IF page = <<>> THEN <<>>
    ELSE LET n == Len(page)
             front == CollectFromPage(SubSeq(page, 1, n - 1), year)
         IN  IF IsPostLink(page[n].href)
             THEN Append(front, [url |-> page[n].href,
                                 title |-> GetTextStrip(page[n].text),
                                 year |-> year])
             ELSE front

RECURSIVE DedupMutLast(_)
\* a de-duplication that keeps the last entry of each url
DedupMutLast(posts) ==
    IF posts = <<>> THEN <<>>
    ELSE IF \E k \in 2..Len(posts) : posts[k].url = Head(posts).url
         THEN DedupMutLast(Tail(posts))
         ELSE <<Head(posts)>> \o DedupMutLast(Tail(posts))

RECURSIVE DedupMutPrepend(_)
\* a de-duplication that puts each new entry in front of unique_posts
DedupMutPrepend(posts) ==
    IF posts = <<>> THEN <<>>
    ELSE LET n == Len(posts)
             front == SubSeq(posts, 1, n - 1)
         IN  IF \E k \in 1..(n - 1) : posts[k].url = posts[n].url
             THEN DedupMutPrepend(front)
             ELSE <<posts[n]>> \o DedupMutPrepend(front)

RECURSIVE DedupLoop(_, _, _)
\* lines 72-75: the loop over all_posts with its seen_urls and unique_posts
DedupLoop(posts, seen_urls, out) ==
    IF posts = <<>> THEN out
    ELSE IF Head(posts).url \notin seen_urls
         THEN DedupLoop(Tail(posts), seen_urls \cup {Head(posts).url},
                        Append(out, Head(posts)))
         ELSE DedupLoop(Tail(posts), seen_urls, out)

\* lines 69-77
Dedup(posts) == DedupLoop(posts, {}, <<>>)

RECURSIVE LinkCount(_)
\* hyperlinks on the pages fetched so far
LinkCount(pp) ==
    IF pp = <<>> THEN 0 ELSE Len(Head(pp).links) + LinkCount(Tail(pp))

\* lines 63-67, one iteration: the sitemap page of the next year is fetched
\* and parsed, whatever its status (line 34 does not look at it; a page that
\* is an error page or is malformed is a page with the links html.parser
\* finds in it, usually none). After the last year lines 69-77 run and
\* collect_all_urls returns to main (line 194).
FetchYear ==
    /\ main_pc = "collecting"
    /\ yi < Len(Years)
    /\ \E page \in SeqsUpTo(Links, MaxLinks - LinkCount(pages)) :
         /\ pages' = Append(pages, [ok |-> TRUE, links |-> page])
         /\ all_posts' = all_posts \o CollectFromPage(page, Years[yi + 1])
    /\ yi' = yi + 1
    /\ IF yi + 1 = Len(Years)
       THEN /\ unique_posts' = Dedup(all_posts')
            /\ main_pc' = "collected"
       ELSE UNCHANGED <<unique_posts, main_pc>>
    /\ UNCHANGED <<batchVars, imgVars, exVars>>

\* line 34: requests.get raises (the host cannot be reached); nothing in
\* collect_urls_from_sitemap, collect_all_urls or main catches it
FetchYearRaises ==
    /\ main_pc = "collecting"
    /\ yi < Len(Years)
    /\ pages' = Append(pages, [ok |-> FALSE, links |-> <<>>])
    /\ main_pc' = "crashed"
    /\ UNCHANGED <<yi, all_posts, unique_posts>>
    /\ UNCHANGED <<batchVars, imgVars, exVars>>

(***************************************************************************)
(* main, lines 192-232.                                                    *)
(***************************************************************************)
\* lines 194-213: all_urls goes to scrape_all_posts as it is, whatever its
\* length; save_enabled is debug_file_logs. The locals of collect_all_urls
\* are gone.
MainScrape ==
    /\ main_pc = "collected"
    /\ main_pc' = "scraping"
    /\ urls' = unique_posts
    /\ \E debug_file_logs \in BOOLEAN : save_enabled' = debug_file_logs
    /\ pc' = "loop"
    /\ yi' = 0
    /\ pages' = <<>>
    /\ all_posts' = <<>>
    /\ unique_posts' = <<>>
    /\ UNCHANGED <<files, files0, run, i, success_count, error_count, errors,
                   trace, prev>>
    /\ UNCHANGED <<imgVars, exVars>>

\* lines 215-238: the summary is written and "SCRAPING COMPLETE" printed
MainComplete ==
    /\ main_pc = "scraping"
    /\ pc = "done"
    /\ main_pc' = "complete"
    /\ UNCHANGED <<yi, pages, all_posts, unique_posts>>
    /\ UNCHANGED <<batchVars, imgVars, exVars>>

\* main starts over an output_dir that is empty or holds the record an
\* earlier invocation left for UrlA.
InitMain ==
    /\ urls = <<>>
    /\ save_enabled = FALSE
    /\ files \in { [k \in Keys |-> NoFile],
                   [k \in Keys |-> IF k = Slug(UrlA)
                                   THEN Complete(PostData(UrlA)) ELSE NoFile] }
    /\ files0 = files
    /\ run = "first"
    /\ pc = "idle"
    /\ i = 0
    /\ success_count = 0
    /\ error_count = 0
    /\ errors = <<>>
    /\ trace = <<>>
    /\ prev = NoPrev
    /\ main_pc = "collecting"
    /\ yi = 0
    /\ pages = <<>>
    /\ all_posts = <<>>
    /\ unique_posts = <<>>
    /\ ImgIdle
    /\ ExIdle

NextMain ==
    \/ FetchYear
    \/ FetchYearRaises
    \/ MainScrape
    \/ SkipExisting
    \/ ScrapeSuccess
    \/ ExtractFail
    \/ SaveFail
    \/ FinishRun
    \/ MainComplete

SpecMain == InitMain /\ [][NextMain]_vars

(***************************************************************************)
(* extract_images, scraper.py lines 157-184.                               *)
(***************************************************************************)
\* img.get('width'): None when the attribute is absent, else its text
Absent == [present |-> FALSE, chars |-> <<>>]
Attr(chars) == [present |-> TRUE, chars |-> chars]

AttrVals ==
    { Absent, Attr(<<>>), Attr(<<"9", "9">>), Attr(<<"1", "0", "0">>),
      Attr(<<"9", "9", "p", "x">>) }

Img(width, height) == [width |-> width, height |-> height]
ImgElements == {Img(w, h) : w \in AttrVals, h \in AttrVals}

\* the truth value Python gives img.get(...): None and '' are false
Truthy(a) == a.present /\ a.chars # <<>>

Digits == <<"0", "1", "2", "3", "4", "5", "6", "7", "8", "9">>
IsDigit(c) == \E d \in 1..Len(Digits) : Digits[d] = c
DigitVal(c) == (CHOOSE d \in 1..Len(Digits) : Digits[d] = c) - 1

\* int(text) returns, for the texts of AttrVals (no sign, no white space)
ParsesAsInt(chars) == chars # <<>> /\ \A k \in 1..Len(chars) : IsDigit(chars[k])

RECURSIVE IntOf(_)
\* int(text)
IntOf(chars) ==
    IF chars = <<>> THEN 0
    ELSE 10 * IntOf(SubSeq(chars, 1, Len(chars) - 1)) + DigitVal(chars[Len(chars)])

\* line 170
MinSize == 100

\* lines 168-173: does the loop body reach `continue`? int(width) is
\* evaluated first; `or` evaluates int(height) only when int(width) >= 100;
\* a ValueError from either leaves the try statement through `pass`.
IsSkipped(img) ==
    /\ Truthy(img.width) /\ Truthy(img.height)
    /\ ParsesAsInt(img.width.chars)
    /\ \/ IntOf(img.width.chars) < MinSize
       \/ /\ ParsesAsInt(img.height.chars)
          /\ IntOf(img.height.chars) < MinSize

CurImg == img_tags[idx + 1]

\* lines 175-182: 'index' is idx, the position enumerate() gives the tag
\* among all img tags of the article
ImageRecord(k, img) == [index |-> k, width |-> img.width, height |-> img.height]

\* lines 163-171: a small image is skipped
ImgSkip ==
    /\ idx < Len(img_tags)
    /\ IsSkipped(CurImg)
    /\ idx' = idx + 1
    /\ UNCHANGED <<img_tags, images>>
    /\ UNCHANGED <<batchVars, collVars, exVars>>

\* lines 163-182: the image is appended
ImgKeep ==
    /\ idx < Len(img_tags)
    /\ ~IsSkipped(CurImg)
    /\ images' = Append(images, ImageRecord(idx, CurImg))
    /\ idx' = idx + 1
    /\ UNCHANGED img_tags
    /\ UNCHANGED <<batchVars, collVars, exVars>>

InitImages ==
    /\ BatchInert
    /\ CollIdle
    /\ img_tags \in SeqsUpTo(ImgElements, MaxImgs)
    /\ idx = 0
    /\ images = <<>>
    /\ ExIdle

NextImages ==
    \/ ImgSkip
    \/ ImgKeep

SpecImages == InitImages /\ [][NextImages]_vars

(***************************************************************************)
(* fetch_html, extract_metadata and extract_post, scraper.py.              *)
(***************************************************************************)
\* The JSON-LD block of a page: soup.find('script', type=...) and what
\* json.loads makes of its string.
\*   "absent"   no such script element
\*   "empty"    the element has no single string child: .string is None
\*   "invalid"  the string is not JSON
\*   "array", "scalar"  the string is JSON, its top level is no object
\*   "object"   the top level is an object with the fields given
LdAbsent == [kind |-> "absent", headline |-> "None", description |-> "None",
             author |-> "missing"]
LdOther(kind) == [LdAbsent EXCEPT !.kind = kind]

\* the value of "author" in the object:
\*   "missing", "null", "empty_list", "objects" (a list of objects),
\*   "strings" (a list of strings), "object" (one object), "string"
AuthorShapes ==
    {"missing", "null", "empty_list", "objects", "strings", "object", "string"}

LdBlocks ==
    {LdAbsent} \cup {LdOther(k) : k \in {"empty", "invalid", "array", "scalar"}}
    \cup [kind : {"object"}, headline : {"None", "H"}, description : {"None", "D"},
          author : AuthorShapes]

\* what requests.get(url) meets: "ok", "bad_status" (raise_for_status
\* raises) or "network_error" (requests.get raises)
Docs == [fetch : {"ok", "bad_status", "network_error"}, ld : LdBlocks]

NoMetadata == [headline |-> "omitted", description |-> "omitted",
               author |-> "omitted", author_url |-> "omitted"]

\* lines 78-91: the exception that leaves extract_metadata, "none" if none
\*   line 79  json.loads(None) raises TypeError; a JSONDecodeError is caught
\*   line 80  a list, string or number has no .get: AttributeError
\*   line 88  authors[0] of an object is a KeyError; authors[0] of a string
\*            or of a list of strings has no .get: AttributeError
MetadataError(ld) ==
    CASE ld.kind = "empty" -> "TypeError"
      [] ld.kind \in {"array", "scalar"} -> "AttributeError"
      [] ld.kind = "object" /\ ld.author = "object" -> "KeyError"
      [] ld.kind = "object" /\ ld.author \in {"strings", "string"} -> "AttributeError"
      [] OTHER -> "none"

\* lines 73-91: the metadata dict when nothing is raised
MetadataOf(ld) ==
    IF ld.kind # "object" THEN NoMetadata
    ELSE [headline |-> ld.headline,
          description |-> ld.description,
          author |-> IF ld.author = "objects" THEN "A" ELSE "omitted",
          author_url |-> IF ld.author = "objects" THEN "AU" ELSE "omitted"]

\* lines 24-26: the document is retrieved
FetchOk ==
    /\ epc = "fetch"
    /\ doc.fetch = "ok"
    /\ epc' = "fetched"
    /\ UNCHANGED <<doc, metadata, raised>>
    /\ UNCHANGED <<batchVars, collVars, imgVars>>

\* lines 24-25: requests.get or raise_for_status raises
FetchRaises ==
    /\ epc = "fetch"
    /\ doc.fetch # "ok"
    /\ epc' = "raised"
    /\ raised' = IF doc.fetch = "bad_status" THEN "HTTPError" ELSE "ConnectionError"
    /\ UNCHANGED <<doc, metadata>>
    /\ UNCHANGED <<batchVars, collVars, imgVars>>

\* lines 207-216: the extractors run; extract_title, extract_content_text,
\* extract_code_snippets and extract_images raise nothing, and the Post is
\* returned
ExtractReturns ==
    /\ epc = "fetched"
    /\ MetadataError(doc.ld) = "none"
    /\ metadata' = MetadataOf(doc.ld)
    /\ epc' = "returned"
    /\ UNCHANGED <<doc, raised>>
    /\ UNCHANGED <<batchVars, collVars, imgVars>>

\* line 211: extract_metadata raises, and extract_post with it
ExtractRaises ==
    /\ epc = "fetched"
    /\ MetadataError(doc.ld) # "none"
    /\ raised' = MetadataError(doc.ld)
    /\ epc' = "raised"
    /\ UNCHANGED <<doc, metadata>>
    /\ UNCHANGED <<batchVars, collVars, imgVars>>

InitExtract ==
    /\ BatchInert
    /\ CollIdle
    /\ ImgIdle
    /\ doc \in Docs
    /\ epc = "fetch"
    /\ metadata = NoMetadata
    /\ raised = "none"

NextExtract ==
    \/ FetchOk
    \/ FetchRaises
    \/ ExtractReturns
    \/ ExtractRaises

SpecExtract == InitExtract /\ [][NextExtract]_vars

(***************************************************************************)
(* Properties of the batch runner.                                         *)
(***************************************************************************)
\* positions of the entries for which extract_post was called
Attempted(tr) == {k \in 1..Len(tr) : tr[k].kind # "skip"}

BothRunsSaved ==
    run = "second" /\ pc = "done" /\ prev.save_enabled /\ save_enabled

\* every input entry has a record under its storage key as the run starts
AllStoredAtStart == \A k \in 1..Len(urls) : files0[Slug(urls[k].url)].state # "none"

\* C1 as stated: two runs over the same input with save_enabled=True: the
\* second run performs zero fetches and returns successful == total.
C1_ResumeAnyInput ==
    BothRunsSaved => (Attempted(trace) = {} /\ Summary.successful = Summary.total)

\* C1 amended: two runs over the same input with save_enabled=True: if every
\* input entry has a record under its storage key when the second run starts,
\* as is the case when the first run reported failed == 0, the second run
\* performs zero fetches and returns successful == total.
C1_Resume ==
    /\ (BothRunsSaved /\ prev.summary.failed = 0) => AllStoredAtStart
    /\ (BothRunsSaved /\ AllStoredAtStart) =>
            (Attempted(trace) = {} /\ Summary.successful = Summary.total)

\* a second run that skips every entry after a first run that fetched them
C1_Witness ==
    /\ BothRunsSaved
    /\ prev.summary.failed = 0
    /\ Len(urls) >= 3
    /\ Attempted(prev.trace) # {}
    /\ Attempted(trace) = {}

RECURSIVE FailuresOf(_)
\* the {url, slug, error} items of the failed steps of a trace, in order
FailuresOf(tr) ==
    IF tr = <<>> THEN <<>>
    ELSE LET n == Len(tr)
             front == FailuresOf(SubSeq(tr, 1, n - 1))
         IN  IF tr[n].kind = "fail"
             THEN Append(front, [url |-> tr[n].url, slug |-> Slug(tr[n].url),
                                 error |-> tr[n].error])
             ELSE front

\* a first run over five entries in which extract_post fails for the third
\* entry and for no other, and no entry is skipped
ThirdOfFiveFails ==
    /\ run = "first"
    /\ pc = "done"
    /\ save_enabled
    /\ Len(urls) = 5
    /\ Len(trace) = 5
    /\ trace[3].kind = "fail"
    /\ trace[3].error = ErrFetch
    /\ \A k \in {1, 2, 4, 5} : trace[k].kind = "ok"

\* C2: a failing entry is recorded as {url, slug, error} and counted in
\* failed, and every later entry is still processed; five fresh entries of
\* which only the third fails give successful=4, failed=1 and the records
\* of entries 1, 2, 4 and 5.
C2_PartialFailure ==
    /\ errors = FailuresOf(trace)
    /\ error_count = Cardinality({k \in 1..Len(trace) : trace[k].kind = "fail"})
    /\ pc = "done" =>
          /\ Len(trace) = Len(urls)
          /\ \A k \in 1..Len(urls) : trace[k].url = urls[k].url
    /\ ThirdOfFiveFails =>
          /\ Summary.successful = 4
          /\ Summary.failed = 1
          /\ \A k \in {1, 2, 4, 5} :
                files[Slug(urls[k].url)] = Complete(PostData(urls[k].url))
          /\ files[Slug(urls[3].url)] = NoFile

\* the five-entry run of C2 has ended
C2_Witness == ThirdOfFiveFails /\ Summary.total = 5

\* C6 as stated: the runner sleeps after every entry for which extraction
\* was attempted, succeeded or failed, before it starts the next entry, and
\* does not sleep after a skipped entry.
C6_SleepAfterAttempt ==
    \A k \in 1..Len(trace) :
        k < Len(trace) => (trace[k].slept <=> trace[k].kind # "skip")

\* C7 as stated: an entry in the error list has no record, partial or
\* complete, written under its storage key by this run: whatever lies under
\* its key was there before the run or is the complete record of an entry
\* that succeeded.
C7_NoRecordForFailed ==
    \A j \in 1..Len(errors) :
        LET s == errors[j].slug
        IN  \/ files[s] = files0[s]
            \/ \E k \in 1..Len(trace) :
                  /\ trace[k].kind = "ok"
                  /\ files[s] = Complete(PostData(trace[k].url))

\* C10: with save_enabled=False no record is written or changed, no entry
\* is skipped, and extract_post is called for every input entry.
C10_DryRun ==
    ~save_enabled =>
        /\ files = files0
        /\ \A k \in 1..Len(trace) : trace[k].kind # "skip"
        /\ Attempted(trace) = 1..i
        /\ pc = "done" => Attempted(trace) = 1..Len(urls)

\* a dry run has ended over storage that holds a record for every entry
C10_Witness ==
    /\ ~save_enabled
    /\ run = "second"
    /\ pc = "done"
    /\ Len(urls) >= 2
    /\ \A k \in 1..Len(urls) : files0[Slug(urls[k].url)].state # "none"

(***************************************************************************)
(* Properties of the sitemap collector and of main.                        *)
(***************************************************************************)
RECURSIVE PerYearResults(_, _)
\* the per-year results of the pages fetched, concatenated in the order of
\* Years (pp are the pages of the years from position y on)
PerYearResults(pp, y) ==
    IF pp = <<>> THEN <<>>
    ELSE CollectFromPage(Head(pp).links, Years[y]) \o PerYearResults(Tail(pp), y + 1)

\* position of the first entry of posts with the given url
FirstAt(posts, url) ==
    CHOOSE k \in 1..Len(posts) :
        /\ posts[k].url = url
        /\ \A m \in 1..(k - 1) : posts[m].url # url

\* C3: the list collect_all_urls returns holds no url twice, holds every
\* url of the per-year results, and keeps for each url the first entry met
\* when the per-year results are concatenated in ascending year order.
C3_Dedup ==
    main_pc = "collected" =>
        LET cat == PerYearResults(pages, 1)
        IN  /\ \A y \in 1..(Len(Years) - 1) : Years[y] < Years[y + 1]
            /\ \A j, k \in 1..Len(unique_posts) :
                  unique_posts[j].url = unique_posts[k].url => j = k
            /\ {cat[k].url : k \in 1..Len(cat)}
                  = {unique_posts[j].url : j \in 1..Len(unique_posts)}
            /\ \A j \in 1..Len(unique_posts) :
                  unique_posts[j] = cat[FirstAt(cat, unique_posts[j].url)]

\* the same url is met in two years under two titles
C3_Witness ==
    /\ main_pc = "collected"
    /\ \E j, k \in 1..Len(all_posts) :
          /\ j < k
          /\ all_posts[j].url = all_posts[k].url
          /\ all_posts[j].title # all_posts[k].title
          /\ all_posts[j].year < all_posts[k].year
    /\ Len(unique_posts) = 2

\* C8 as stated: when the fetch of one year's sitemap page raises,
\* collection goes on: collect_all_urls does not abort, and the remaining
\* years are fetched and their entries returned.
C8_SitemapFailureIsolated ==
    (\E k \in 1..Len(pages) : ~pages[k].ok) =>
        /\ main_pc # "crashed"
        /\ main_pc = "collected" =>
              /\ Len(pages) = Len(Years)
              /\ unique_posts = Dedup(PerYearResults(pages, 1))

\* C9 as stated: when collection yields no entry at all, main does not go
\* on to scrape the empty list and report a completed run.
C9_ZeroEntriesFatal ==
    main_pc \in {"scraping", "complete"} => Len(urls) > 0

(***************************************************************************)
(* Properties of the post extractor.                                       *)
(***************************************************************************)
\* the img tag at position k (from 0) is in the output
Retained(k) == \E j \in 1..Len(images) : images[j].index = k

BothNumeric(img) ==
    /\ img.width.present /\ ParsesAsInt(img.width.chars)
    /\ img.height.present /\ ParsesAsInt(img.height.chars)

\* C4 as stated: an image with two integer dimensions is in the output iff
\* width >= 100 and height >= 100; an image of which a dimension is absent
\* or no integer is always in the output.
C4_SizeFilter ==
    \A k \in 1..idx :
        LET img == img_tags[k]
        IN  IF BothNumeric(img)
            THEN Retained(k - 1) <=> (IntOf(img.width.chars) >= MinSize
                                      /\ IntOf(img.height.chars) >= MinSize)
            ELSE Retained(k - 1)

\* C5 as stated: extract_post raises only when the document could not be
\* retrieved; for every retrieved document it returns a Post.
C5_OnlyFetchErrors ==
    epc = "raised" => doc.fetch # "ok"

\* C11 as stated: the index fields of the images extract_images returns are
\* 0..k-1 in output order: an image's index is its position among the
\* retained images.
C11_RetainedIndex ==
    \A j \in 1..Len(images) : images[j].index = j - 1

(***************************************************************************)
(* Further properties of the batch runner.                                 *)
(***************************************************************************)
\* C12: the summary has total equal to the number of input entries,
\* successful + failed == total, and errors holds one {url, slug, error}
\* item per failed entry, in input order.
C12_Accounting ==
    /\ success_count + error_count = i
    /\ Len(errors) = error_count
    /\ pc = "done" =>
          /\ Summary.total = Len(urls)
          /\ Summary.successful + Summary.failed = Summary.total
          /\ Len(Summary.errors) = Summary.failed
          /\ LET failed == {k \in 1..Len(urls) : trace[k].kind = "fail"}
                 nth(j) == CHOOSE k \in failed :
                              Cardinality({m \in failed : m < k}) = j - 1
             IN  /\ Cardinality(failed) = Summary.failed
                 /\ \A j \in 1..Len(Summary.errors) :
                       /\ Summary.errors[j].url = urls[nth(j)].url
                       /\ Summary.errors[j].slug = Slug(urls[nth(j)].url)
                       /\ Summary.errors[j].error = trace[nth(j)].error

\* a run over pre-existing records has ended with a skipped, a scraped and
\* two failed entries
C12_Witness ==
    /\ run = "second"
    /\ pc = "done"
    /\ \E k \in 1..Len(trace) : trace[k].kind = "skip"
    /\ \E k \in 1..Len(trace) : trace[k].kind = "ok"
    /\ Summary.failed = 2
    /\ Summary.errors[1].url # Summary.errors[2].url

\* C13: with save_enabled=True, an entry under whose storage key a record
\* exists is counted successful, is not fetched, is not added to the error
\* list, and the record stays as it is.
C13_SkipStep ==
    [][ (InLoop /\ save_enabled /\ files[CurSlug].state # "none") =>
          /\ success_count' = success_count + 1
          /\ error_count' = error_count
          /\ errors' = errors
          /\ files' = files
          /\ i' = i + 1
          /\ Len(trace') = i + 1
          /\ trace'[i + 1].kind = "skip"
          /\ Attempted(trace') = Attempted(trace) ]_vars

\* an entry was skipped over the record of another URL, which is still there
C13_Witness ==
    /\ save_enabled
    /\ \E k \in 1..Len(trace) :
          /\ trace[k].kind = "skip"
          /\ files[Slug(trace[k].url)].state = "complete"
          /\ files[Slug(trace[k].url)].url # trace[k].url
          /\ files[Slug(trace[k].url)] = files0[Slug(trace[k].url)]

RECURSIVE TrailingSegment(_)
\* the part of a URL after its last '/p/' marker
TrailingSegment(url) ==
    IF url = <<>> \/ url[Len(url)] = Marker THEN <<>>
    ELSE Append(TrailingSegment(SubSeq(url, 1, Len(url) - 1)), url[Len(url)])

HasMarker(url) == \E k \in 1..Len(url) : url[k] = Marker

\* entry k of the run follows an entry j with another URL and the same
\* trailing segment
CollidesWith(j, k) ==
    /\ j < k
    /\ trace[j].url # trace[k].url
    /\ HasMarker(trace[j].url) /\ HasMarker(trace[k].url)
    /\ TrailingSegment(trace[j].url) = TrailingSegment(trace[k].url)

\* the step left or found a file under its key
LeftFile(step) == step.kind \in {"ok", "skip"} \/ step.error = ErrDump

\* C14 as stated: the storage key is what follows the last '/p/' marker, and
\* with save_enabled=True the later of two distinct URLs of one input that
\* share it is counted successful and never fetched.
C14_CollisionAlways ==
    save_enabled =>
        \A j, k \in 1..Len(trace) :
            CollidesWith(j, k) => trace[k].kind = "skip"

\* C14 amended: the storage key is what follows the last '/p/' marker; with
\* save_enabled=True, when two distinct URLs of one input share it and a
\* file lies under it when the later one is reached (the earlier one was
\* saved or skipped, or its json.dump broke off), the later one is counted
\* successful, is never fetched, and no record of its own is written.
C14_Collision ==
    /\ \A k \in 1..Len(errors) :
          HasMarker(errors[k].url) => errors[k].slug = TrailingSegment(errors[k].url)
    /\ \A k \in 1..Len(trace) :
          (trace[k].kind = "ok" /\ save_enabled /\ HasMarker(trace[k].url)) =>
              files[TrailingSegment(trace[k].url)].state # "none"
    /\ save_enabled =>
          \A j, k \in 1..Len(trace) :
              (CollidesWith(j, k) /\ LeftFile(trace[j])) =>
                  /\ trace[k].kind = "skip"
                  /\ success_count = Cardinality({m \in 1..Len(trace) :
                                                    trace[m].kind # "fail"})
                  /\ (\A n \in 1..Len(trace) :
                         trace[n].url = trace[k].url => trace[n].kind = "skip")
                     => LET key == TrailingSegment(trace[k].url)
                        IN  files[key] = files0[key] \/ files[key].url # trace[k].url

\* in a first run UrlA was saved and UrlA2, which ends in the same segment
\* after a second marker, was skipped
C14_Witness ==
    /\ save_enabled
    /\ run = "first"
    /\ pc = "done"
    /\ Len(trace) = 2
    /\ trace[1].url = UrlA /\ trace[1].kind = "ok"
    /\ trace[2].url = UrlA2 /\ trace[2].kind = "skip"
    /\ files[Slug(UrlA2)] = Complete(PostData(UrlA))

(***************************************************************************)
(* Further properties of the sitemap collector.                            *)
(***************************************************************************)
\* the positions, in the page of one year, of the links that are retained
\* with the given url
PositionsOn(page, url) ==
    {k \in 1..Len(page) : page[k].href = url /\ IsPostLink(page[k].href)}

\* the place of an entry in the sitemap: the number of its year in Years and
\* the position on that year's page of the first link to its url
YearNo(entry) == CHOOSE y \in 1..Len(Years) : Years[y] = entry.year
PlaceOnPage(entry) ==
    LET at == PositionsOn(pages[YearNo(entry)].links, entry.url)
    IN  CHOOSE k \in at : \A m \in at : k <= m

\* C15: the list collect_all_urls returns is a subsequence of the per-year
\* results concatenated in ascending year order: its entries are ordered by
\* year and, within a year, by the place of their link on the year's page.
C15_OutputOrder ==
    main_pc = "collected" =>
        LET cat == PerYearResults(pages, 1)
        IN  /\ \E P \in SUBSET (1..Len(cat)) : unique_posts = Pick(cat, P)
            /\ \A j, k \in 1..Len(unique_posts) :
                  j < k =>
                    /\ unique_posts[j].year <= unique_posts[k].year
                    /\ unique_posts[j].year = unique_posts[k].year =>
                          PlaceOnPage(unique_posts[j]) < PlaceOnPage(unique_posts[k])

\* two entries of one year and one of a later year were returned
C15_Witness ==
    /\ main_pc = "collected"
    /\ Len(unique_posts) = 3
    /\ unique_posts[1].year = unique_posts[2].year
    /\ unique_posts[2].year < unique_posts[3].year

(***************************************************************************)
(* The order of processing and the attempts of two runs.                   *)
(***************************************************************************)
\* the urls for which extract_post was called, in the order of the calls
AttemptSeq(tr) == Pick([k \in 1..Len(tr) |-> tr[k].url], Attempted(tr))

BothRunsDone == run = "second" /\ pc = "done"

\* C16 as stated: entries are processed strictly in input order, and two
\* runs over the same input produce the same sequence of extraction attempts
\* (the same urls fetched in the same order), also when save_enabled=True
\* and the records of the first run are still in storage.
C16_SameAttempts ==
    /\ \A k \in 1..Len(trace) : trace[k].url = urls[k].url
    /\ BothRunsDone => AttemptSeq(trace) = AttemptSeq(prev.trace)

\* C16 amended: entries are processed strictly in input order; two runs
\* over the same input with save_enabled=False produce the same sequence
\* of extraction attempts, one for every entry; a run with
\* save_enabled=True attempts, in input order, only entries under whose
\* storage key no record was in storage when the run started, so a rerun
\* does not fetch again the entries whose records are still in storage,
\* and its attempts are among those of the first run.
C16_Determinism ==
    /\ Len(trace) = i
    /\ \A k \in 1..Len(trace) : trace[k].url = urls[k].url
    /\ ~save_enabled => AttemptSeq(trace) = [k \in 1..i |-> urls[k].url]
    /\ (BothRunsDone /\ ~save_enabled /\ ~prev.save_enabled) =>
            AttemptSeq(trace) = AttemptSeq(prev.trace)
    /\ save_enabled =>
            \A k \in Attempted(trace) : files0[Slug(urls[k].url)].state = "none"
    /\ (BothRunsDone /\ save_enabled) => Attempted(trace) \subseteq Attempted(prev.trace)

\* a rerun with save_enabled=True that fetches again only the entry the
\* first run failed on, and leaves out the one it had saved before it
C16_Witness ==
    /\ BothRunsSaved
    /\ Len(urls) = 2
    /\ Attempted(prev.trace) = {1, 2}
    /\ prev.trace[1].kind = "ok"
    /\ Attempted(trace) = {2}
    /\ AttemptSeq(trace) # AttemptSeq(prev.trace)

(***************************************************************************)
(* The link filter of the sitemap collector.                               *)
(***************************************************************************)
\* the host of the link target is the blog's domain
HostIsBlog(href) == href # <<>> /\ href[1] = BlogHost

\* the path of the link target holds the '/p/' marker
PathHasMarker(href) == \E k \in 2..Len(href) : href[k] = Marker

\* the entries collect_urls_from_sitemap returns for the page of year y
EntriesOf(y) == CollectFromPage(pages[y].links, Years[y])

\* C17 as stated: collect_urls_from_sitemap retains a hyperlink iff its
\* target path contains the '/p/' marker and its host is the blog domain; a
\* link of another host whose path or query merely contains the text
\* 'blog.bytebytego.com' is not retained, and a retained link with no
\* visible text gets an empty-string title.
C17_LinkFilter ==
    \A y \in 1..Len(pages) :
        pages[y].ok =>
            /\ \A k \in 1..Len(pages[y].links) :
                  LET href == pages[y].links[k].href
                  IN  (\E j \in 1..Len(EntriesOf(y)) : EntriesOf(y)[j].url = href)
                          <=> (PathHasMarker(href) /\ HostIsBlog(href))
            /\ \A k \in 1..Len(pages[y].links) :
                  LET link == pages[y].links[k]
                  IN  (IsPostLink(link.href) /\ GetTextStrip(link.text) = <<>>) =>
                          \E j \in 1..Len(EntriesOf(y)) :
                              /\ EntriesOf(y)[j].url = link.href
                              /\ EntriesOf(y)[j].title = <<>>

====
